---- MODULE Spec2Model ----
(***************************************************************************)
(* CompressoX: the try-all/keep-best candidate loops of compress_video,    *)
(* compress_docx and compress_pdf, the codec primitives (Huffman, RLE,     *)
(* LZ77) they share, the image and text entry points, and the request      *)
(* handlers of app.py that call them.                                      *)
(***************************************************************************)
EXTENDS Integers, Sequences, FiniteSets, TLC

VARIABLES
    kind,                  \* which entry point runs: "video", "docx" or "pdf"
    is_lossy,              \* the mode argument
    pc,                    \* position inside the entry point
    idx,                   \* 1-based index of the candidate of the for loop
    original_size,         \* os.path.getsize(input_path)
    best_compressed_size,  \* the accumulator's size
    best_algorithm,        \* the accumulator's name, None while unset
    temp_output_bound,     \* whether the local name temp_output is assigned
    temp_file,             \* the file at "<output_path>.temp"
    temp_open,             \* the candidates whose writer holds the temp path open
    output_file,           \* the file at output_path
    input_file,            \* the file at input_path (set of candidates that changed it)
    reader_pages,          \* pdf: the page objects held by reader (set of candidates that changed them)
    seen,                  \* history: the payload each candidate was given
    measured,              \* history: the size measured for each completed candidate
    raised,                \* history: the candidates that raised
    output_writes,         \* history: every write to output_path
    final_size,            \* history: size measured by compress_pdf's last attempt
    result,                \* the returned dict
    codec,                 \* codec spec: which primitive was applied
    impl,                  \* codec spec: which module's implementation
    data,                  \* codec spec: the input symbols
    encoded,               \* codec spec: the bytes returned
    quality,               \* the quality argument of compress_image and compress_text*
    quantizations,         \* video pipeline: the calls of apply_quantization so far
    frame1,                \* video pipeline: the previous frame (rows of 8-bit luma)
    frame2,                \* video pipeline: the current frame
    motion_vectors,        \* video pipeline: what apply_motion_estimation returned
    algo,                  \* frame loop: the candidate whose pass runs
    video_frames,          \* frame loop: how many frames cap.read() yields
    failing,               \* frame loop: the frames whose processing raises
    chunk_size,            \* frame loop: frames read per chunk
    cap_pos,               \* frame loop: the position of cap, frames read so far
    prev_frame,            \* frame loop: the reference carried to the next chunk
    temp_frames,           \* frame loop: the frames written to temp_out, in order
    pass,                  \* frame loop: "idle", "running", "done" or "raised"
    requests,              \* app: the requests being handled, by request number
    fs                     \* app: the files of UPLOAD_FOLDER, by path

orchVars == <<kind, is_lossy, pc, idx, original_size, best_compressed_size,
              best_algorithm, temp_output_bound, temp_file, temp_open,
              output_file, input_file, reader_pages, seen, measured, raised,
              output_writes, final_size, result>>
codecVars == <<codec, impl, data, encoded>>
chunkVars == <<algo, video_frames, failing, chunk_size, cap_pos, prev_frame,
               temp_frames, pass>>
appVars == <<requests, fs>>
pipelineVars == <<quantizations, frame1, frame2, motion_vectors, chunkVars,
                  appVars>>
entryVars == <<quality, pipelineVars>>
vars == <<orchVars, codecVars, entryVars>>

----------------------------------------------------------------------------
(* Bounds *)

\* largest original_size tried; candidates measure 0 .. MaxSize + 1
MaxSize == 3

----------------------------------------------------------------------------
(* Values *)

None == "None"
Kinds == {"video", "docx", "pdf"}
NoFile == [by |-> None, size |-> 0]
NotMeasured == -1
NotStarted == {-1}
Original == {}

\* The candidate lists, in the order the for loops visit them.
VideoAlgorithms(lossy) ==
    IF lossy
    THEN <<"Motion Compensation", "DCT Compression", "Hybrid Compression">>
    ELSE <<"Huffman Coding", "Run-Length Encoding", "LZ77 Compression">>

DocxAlgorithms(lossy) ==
    IF lossy
    THEN <<"Aggressive Image Compression", "Smart Image Compression",
           "Color Space Optimization">>
    ELSE <<"Structure Optimization", "Content Stream Optimization",
           "Object Stream Optimization">>

PdfAlgorithms(lossy) ==
    IF lossy
    THEN <<"Aggressive Image Compression", "Balanced Image Compression",
           "Smart Image Compression">>
    ELSE <<"Maximum Compression", "Balanced Compression",
           "Structure Optimization">>

algorithms ==
    CASE kind = "video" -> VideoAlgorithms(is_lossy)
      [] kind = "docx"  -> DocxAlgorithms(is_lossy)
      [] kind = "pdf"   -> PdfAlgorithms(is_lossy)

NumAlgorithms == Len(algorithms)

\* ratio: original_size / size if size > 0 else 1, kept as an exact fraction
Ratio(orig, size) == IF size > 0 THEN <<orig, size>> ELSE <<1, 1>>

Success(orig, size, alg) ==
    [success |-> TRUE, original_size |-> orig, compressed_size |-> size,
     ratio |-> Ratio(orig, size), algorithm |-> alg]

Failure(err) == [success |-> FALSE, error |-> err]

\* variants of the comparison: against the original instead of the running
\* best, and off by one
ImprovesOnOriginal(size, best) == size < original_size
ImprovesByMoreThanOne(size, best) == size + 1 < best

\* variant of the comparison that lets an equal size replace the best
ImprovesOrTies(size, best) == size <= best

\* "if compressed_size < best_compressed_size" of the three loops
Improves(size, best) == size < best

\* variant of the final test with > for >=
NoCompressionStrict(best, orig) == best > orig

\* "if best_compressed_size >= original_size" after the loop
NoCompression(best, orig) == best >= orig

\* variant of the handler's clean-up that leaves the file
KeepTemp(file) == file

\* "if os.path.exists(temp_output): os.remove(temp_output)", and os.remove in
\* the else branch of the comparison: the file at the temp path afterwards
RemoveTemp(file) == NoFile

\* whether the writer of the temp file is closed when the write raises:
\* compress_pdf writes inside "with open(temp_output, 'wb')" and compress_docx
\* inside temp_doc.save; compress_video calls temp_out.release() after the
\* frame loop only, and its handler does not
ClosesOnRaise(k) == k # "video"

\* where the candidate's code assigns temp_output: compress_pdf first thing in
\* the try block, compress_video and compress_docx after code that can raise
BindsTempFirst(k) == k = "pdf"

\* what a candidate is handed: compress_pdf iterates reader.pages, the others
\* reopen or rewind the file at input_path
Payload(k) == IF k = "pdf" THEN reader_pages ELSE input_file

----------------------------------------------------------------------------
(* The entry points *)

OrchInit ==
    /\ kind \in Kinds
    /\ is_lossy \in BOOLEAN
    /\ pc = "start"
    /\ idx = 1
    /\ original_size \in 2..MaxSize
    /\ best_compressed_size = 0
    /\ best_algorithm = None
    /\ temp_output_bound = FALSE
    /\ temp_file = NoFile
    /\ temp_open = {}
    /\ output_file \in {NoFile, [by |-> "earlier call", size |-> 1]}
    /\ input_file = Original
    /\ reader_pages = Original
    /\ seen = [i \in 1..3 |-> NotStarted]
    /\ measured = [i \in 1..3 |-> NotMeasured]
    /\ raised = {}
    /\ output_writes = <<>>
    /\ final_size = NotMeasured
    /\ result = Failure("pending")

CodecIdle ==
    /\ codec = "none"
    /\ impl = "none"
    /\ data = <<>>
    /\ encoded = <<>>

\* getsize(input_path), opening the input, the accumulator's initial value;
\* a failure here returns through the outer handler (or "Could not open video file")
OpenInput ==
    /\ pc = "start"
    /\ \E ok \in BOOLEAN :
        IF ok
        THEN /\ best_compressed_size' = original_size
             /\ pc' = "loop"
             /\ result' = result
        ELSE /\ best_compressed_size' = best_compressed_size
             /\ pc' = "done"
             /\ result' = Failure(IF kind = "video" THEN "Could not open video file"
                                  ELSE "exception")
    /\ UNCHANGED <<kind, is_lossy, idx, original_size, best_algorithm,
                   temp_output_bound, temp_file, output_file, input_file,
                   reader_pages, seen, measured, raised, output_writes, final_size>>
    /\ UNCHANGED <<temp_open, codecVars, entryVars>>

\* The head of one iteration's try block, up to the point where the temp file
\* is opened: reading the payload and (docx, pdf) applying the algorithm to it.
BeginCandidate ==
    /\ pc = "loop"
    /\ idx <= NumAlgorithms
    /\ seen' = [seen EXCEPT ![idx] = Payload(kind)]
    /\ temp_output_bound' = (temp_output_bound \/ BindsTempFirst(kind))
    /\ \E mutates \in (IF kind = "pdf" THEN BOOLEAN ELSE {FALSE}) :
        reader_pages' = IF mutates THEN reader_pages \cup {idx} ELSE reader_pages
    /\ \E ok \in BOOLEAN :
        IF ok
        THEN pc' = "write" /\ raised' = raised
        ELSE pc' = "except" /\ raised' = raised \cup {idx}
    /\ UNCHANGED <<kind, is_lossy, idx, original_size, best_compressed_size,
                   best_algorithm, temp_file, output_file, input_file, measured,
                   output_writes, final_size, result>>
    /\ UNCHANGED <<temp_open, codecVars, entryVars>>

\* temp_output is assigned and the candidate's output is written to it.  The
\* write either completes with some size, the writer closed, or raises, leaving
\* a partial file or none.  Binding the new writer drops the one before it.
WriteTemp ==
    /\ pc = "write"
    /\ temp_output_bound' = TRUE
    /\ \/ \E size \in 0..(MaxSize + 1) :
            /\ temp_file' = [by |-> algorithms[idx], size |-> size]
            /\ temp_open' = {}
            /\ pc' = "measure"
            /\ raised' = raised
       \/ \E partial \in BOOLEAN :
            /\ temp_file' = IF partial THEN [by |-> algorithms[idx], size |-> 0]
                            ELSE temp_file
            /\ temp_open' = IF partial /\ ~ClosesOnRaise(kind) THEN {idx} ELSE {}
            /\ pc' = "except"
            /\ raised' = raised \cup {idx}
    /\ UNCHANGED <<kind, is_lossy, idx, original_size, best_compressed_size,
                   best_algorithm, output_file, input_file, reader_pages, seen,
                   measured, output_writes, final_size, result>>
    /\ UNCHANGED <<codecVars, entryVars>>

\* compressed_size = getsize(temp_output); promote it if it improves, else remove
\* it.  The accumulator is assigned before the move to output_path, which is
\* still inside the try block: a move that raises goes to the handler with the
\* accumulator already replaced and output_path as it was.
MeasureCandidate ==
    /\ pc = "measure"
    /\ LET compressed_size == temp_file.size IN
        /\ measured' = [measured EXCEPT ![idx] = compressed_size]
        /\ IF Improves(compressed_size, best_compressed_size)
           THEN /\ best_compressed_size' = compressed_size
                /\ best_algorithm' = algorithms[idx]
                /\ \E moved \in BOOLEAN :
                      IF moved
                      THEN /\ output_file' = temp_file
                           /\ temp_file' = NoFile
                           /\ output_writes' = Append(output_writes,
                                  [how |-> "promote", by |-> algorithms[idx],
                                   size |-> compressed_size,
                                   best |-> best_compressed_size])
                           /\ idx' = idx + 1
                           /\ pc' = "loop"
                           /\ raised' = raised
                      ELSE /\ UNCHANGED <<output_file, temp_file, output_writes, idx>>
                           /\ pc' = "except"
                           /\ raised' = raised \cup {idx}
           ELSE /\ temp_file' = RemoveTemp(temp_file)
                /\ idx' = idx + 1
                /\ pc' = "loop"
                /\ UNCHANGED <<best_compressed_size, best_algorithm, output_file,
                               output_writes, raised>>
    /\ UNCHANGED <<kind, is_lossy, original_size, temp_output_bound, input_file,
                   reader_pages, seen, final_size, result>>
    /\ UNCHANGED <<temp_open, codecVars, entryVars>>

\* "except Exception": remove temp_output if it exists and continue.  Reading
\* temp_output while it is unassigned raises out of the handler, to the
\* function's outer handler, which returns the error.
HandleException ==
    /\ pc = "except"
    /\ IF temp_output_bound
       THEN /\ temp_file' = RemoveTemp(temp_file)
            /\ idx' = idx + 1
            /\ pc' = "loop"
            /\ result' = result
       ELSE /\ temp_file' = temp_file
            /\ idx' = idx
            /\ pc' = "done"
            /\ result' = Failure("UnboundLocalError: temp_output")
    /\ UNCHANGED <<kind, is_lossy, original_size, best_compressed_size,
                   best_algorithm, temp_output_bound, output_file, input_file,
                   reader_pages, seen, measured, raised, output_writes, final_size>>
    /\ UNCHANGED <<temp_open, codecVars, entryVars>>

\* after the loop: the result, or (compress_pdf) one more attempt
Finish ==
    /\ pc = "loop"
    /\ idx > NumAlgorithms
    /\ IF NoCompression(best_compressed_size, original_size)
       THEN IF kind = "pdf"
            THEN pc' = "final" /\ result' = result
            ELSE pc' = "done" /\ result' = Failure("Could not achieve compression")
       ELSE /\ pc' = "done"
            /\ result' = Success(original_size, best_compressed_size, best_algorithm)
    /\ UNCHANGED <<kind, is_lossy, idx, original_size, best_compressed_size,
                   best_algorithm, temp_output_bound, temp_file, output_file,
                   input_file, reader_pages, seen, measured, raised,
                   output_writes, final_size>>
    /\ UNCHANGED <<temp_open, codecVars, entryVars>>

\* compress_pdf's "try one last time": final_writer is written straight to
\* output_path, then measured
FinalAttempt ==
    /\ pc = "final"
    /\ pc' = "done"
    /\ \/ \E size \in 0..(MaxSize + 1) :
            /\ output_file' = [by |-> "Maximum Structure Optimization", size |-> size]
            /\ output_writes' = Append(output_writes,
                   [how |-> "direct", by |-> "Maximum Structure Optimization",
                    size |-> size, best |-> best_compressed_size])
            /\ final_size' = size
            /\ result' = IF size < original_size
                         THEN Success(original_size, size,
                                      "Maximum Structure Optimization")
                         ELSE Failure("Could not achieve compression")
       \/ \E partial \in BOOLEAN :
            /\ IF partial
               THEN /\ output_file' = [by |-> "Maximum Structure Optimization",
                                       size |-> 0]
                    /\ output_writes' = Append(output_writes,
                           [how |-> "direct", by |-> "Maximum Structure Optimization",
                            size |-> 0, best |-> best_compressed_size])
               ELSE UNCHANGED <<output_file, output_writes>>
            /\ final_size' = final_size
            /\ result' = Failure("Could not achieve compression")
    /\ UNCHANGED <<kind, is_lossy, idx, original_size, best_compressed_size,
                   best_algorithm, temp_output_bound, temp_file, input_file,
                   reader_pages, seen, measured, raised>>
    /\ UNCHANGED <<temp_open, codecVars, entryVars>>

\* "prev_frame = None": no frame, and the reference of a frame that has none
NoRef == <<-1, None>>
NoFrame == [src |-> -1, by |-> None, ref |-> NoRef]

\* no candidate's frame loop is running
ChunkIdle ==
    /\ algo = None
    /\ video_frames = 0
    /\ failing = {}
    /\ chunk_size = 1
    /\ cap_pos = 0
    /\ prev_frame = NoFrame
    /\ temp_frames = <<>>
    /\ pass = "idle"

\* no request is being handled
AppIdle == requests = <<>> /\ fs = <<>>

\* no frame is being processed
MediaIdle ==
    /\ quantizations = <<>>
    /\ frame1 = <<>>
    /\ frame2 = <<>>
    /\ motion_vectors = <<>>
    /\ ChunkIdle

PipelineIdle == MediaIdle /\ AppIdle

\* the default of the quality parameter, and no frame being processed
EntryIdle == quality = 50 /\ PipelineIdle

Init == OrchInit /\ CodecIdle /\ EntryIdle

Next ==
    \/ OpenInput
    \/ BeginCandidate
    \/ WriteTemp
    \/ MeasureCandidate
    \/ HandleException
    \/ Finish
    \/ FinalAttempt

Spec == Init /\ [][Next]_vars

----------------------------------------------------------------------------
(* Codec primitives: Huffman *)

\* bytes and characters the serialisations use
Quote == 39
Comma == 44
Space == 32
Colon == 58
Backslash == 92
LowerX == 120
OpenBrace == 123
CloseBrace == 125
Digit0 == 48

RECURSIVE Digits(_)
\* str(n).encode() for n >= 0
Digits(n) ==
    IF n < 10 THEN <<Digit0 + n>> ELSE Digits(n \div 10) \o <<Digit0 + (n % 10)>>

\* Counter(data) / freq_map: the distinct symbols in order of first occurrence
RECURSIVE Distinct(_, _)
Distinct(s, sofar) ==
    IF s = <<>> THEN sofar
    ELSE IF \E k \in 1..Len(sofar) : sofar[k] = Head(s)
         THEN Distinct(Tail(s), sofar)
         ELSE Distinct(Tail(s), Append(sofar, Head(s)))

Count(s, v) == Cardinality({k \in 1..Len(s) : s[k] = v})

\* HuffmanNode(value, freq): a leaf; value None marks an internal node
Leaf(v, f) == [value |-> v, freq |-> f, leaf |-> TRUE]
Internal(l, r) == [value |-> None, freq |-> l.freq + r.freq, leaf |-> FALSE,
                   left |-> l, right |-> r]

\* HuffmanNode.__lt__
NodeLess(a, b) == a.freq < b.freq

\* heapq._siftdown(heap, startpos, pos), positions 0-based
RECURSIVE SiftDown(_, _, _, _)
SiftDown(heap, startpos, pos, newitem) ==
    IF pos > startpos
    THEN LET parentpos == (pos - 1) \div 2
             parent == heap[parentpos + 1]
         IN  IF NodeLess(newitem, parent)
             THEN SiftDown([heap EXCEPT ![pos + 1] = parent], startpos,
                           parentpos, newitem)
             ELSE [heap EXCEPT ![pos + 1] = newitem]
    ELSE [heap EXCEPT ![pos + 1] = newitem]

\* heapq._siftup(heap, pos): bubble the smaller child up to a leaf, then sift
\* the item down from there
RECURSIVE SiftUpFrom(_, _, _, _)
SiftUpFrom(heap, startpos, pos, newitem) ==
    LET childpos == 2 * pos + 1
        rightpos == childpos + 1
    IN  IF childpos < Len(heap)
        THEN LET c == IF rightpos < Len(heap)
                         /\ ~NodeLess(heap[childpos + 1], heap[rightpos + 1])
                      THEN rightpos ELSE childpos
             IN  SiftUpFrom([heap EXCEPT ![pos + 1] = heap[c + 1]], startpos, c,
                            newitem)
        ELSE SiftDown([heap EXCEPT ![pos + 1] = newitem], startpos, pos, newitem)

SiftUp(heap, pos) == SiftUpFrom(heap, pos, pos, heap[pos + 1])

\* heapq.heapify: for i in reversed(range(n // 2)): _siftup(x, i)
RECURSIVE HeapifyFrom(_, _)
HeapifyFrom(heap, i) ==
    IF i < 0 THEN heap ELSE HeapifyFrom(SiftUp(heap, i), i - 1)

Heapify(heap) == HeapifyFrom(heap, (Len(heap) \div 2) - 1)

\* heapq.heappop: <<the smallest item, the heap without it>>
HeapPop(heap) ==
    LET lastelt == heap[Len(heap)]
        rest == SubSeq(heap, 1, Len(heap) - 1)
    IN  IF rest = <<>> THEN <<lastelt, rest>>
        ELSE <<rest[1], SiftUp([rest EXCEPT ![1] = lastelt], 0)>>

\* heapq.heappush
HeapPush(heap, item) ==
    SiftDown(Append(heap, item), 0, Len(heap), item)

\* the while loop of build_huffman_tree
RECURSIVE MergeAll(_)
MergeAll(heap) ==
    IF Len(heap) > 1
    THEN LET p1 == HeapPop(heap)
             p2 == HeapPop(p1[2])
         IN  MergeAll(HeapPush(p2[2], Internal(p1[1], p2[1])))
    ELSE heap[1]

\* [HuffmanNode(value, freq) for value, freq in freq.items()]
RECURSIVE Leaves(_, _)
Leaves(syms, s) ==
    IF syms = <<>> THEN <<>>
    ELSE <<Leaf(Head(syms), Count(s, Head(syms)))>> \o Leaves(Tail(syms), s)

\* build_huffman_tree(data), data non-empty
build_huffman_tree(s) == MergeAll(Heapify(Leaves(Distinct(s, <<>>), s)))

\* variant of build_huffman_codes that extends the path with "0" on both sides
RECURSIVE build_huffman_codes_one_bit(_, _)
build_huffman_codes_one_bit(root, current_code) ==
    IF root.leaf
    THEN << <<root.value, IF current_code = <<>> THEN <<0>> ELSE current_code>> >>
    ELSE build_huffman_codes_one_bit(root.left, Append(current_code, 0))
         \o build_huffman_codes_one_bit(root.right, Append(current_code, 0))

\* The codebook as the dict's items in insertion order: <<symbol, code>>
\* pairs, depth first, left before right.
\* video, docx: build_huffman_codes (a root leaf gets "0")
RECURSIVE build_huffman_codes(_, _)
build_huffman_codes(root, current_code) ==
    IF root.leaf
    THEN << <<root.value, IF current_code = <<>> THEN <<0>> ELSE current_code>> >>
    ELSE build_huffman_codes(root.left, Append(current_code, 0))
         \o build_huffman_codes(root.right, Append(current_code, 1))

\* pdf: generate_huffman_codes (the code is the path, whatever its length)
RECURSIVE generate_huffman_codes(_, _)
generate_huffman_codes(root, code) ==
    IF root.leaf
    THEN << <<root.value, code>> >>
    ELSE generate_huffman_codes(root.left, Append(code, 0))
         \o generate_huffman_codes(root.right, Append(code, 1))

CodesOf(s, module) ==
    IF module = "pdf"
    THEN generate_huffman_codes(build_huffman_tree(s), <<>>)
    ELSE build_huffman_codes(build_huffman_tree(s), <<>>)

\* codes[value]
CodeFor(codebook, v) ==
    codebook[CHOOSE n \in 1..Len(codebook) : codebook[n][1] = v][2]

\* int(byte, 2) of eight bits
ByteOf(b) ==
    128 * b[1] + 64 * b[2] + 32 * b[3] + 16 * b[4]
    + 8 * b[5] + 4 * b[6] + 2 * b[7] + b[8]

\* the loop "for i in range(0, len(encoded), 8)"
RECURSIVE PackBits(_)
PackBits(b) ==
    IF b = <<>> THEN <<>>
    ELSE <<ByteOf(SubSeq(b, 1, 8))>> \o PackBits(SubSeq(b, 9, Len(b)))

\* n.to_bytes(4, 'big')
ToBytes4(n) ==
    <<(n \div 16777216) % 256, (n \div 65536) % 256, (n \div 256) % 256, n % 256>>

\* '0' and '1' as characters
RECURSIVE BitChars(_)
BitChars(code) ==
    IF code = <<>> THEN <<>> ELSE <<Digit0 + Head(code)>> \o BitChars(Tail(code))

\* repr of a code, a str of '0' and '1'
ReprCode(code) == <<Quote>> \o BitChars(code) \o <<Quote>>

\* repr of a key: an int (video, pdf) or a one-character str (docx)
ReprKey(v, module) ==
    IF module = "docx"
    THEN IF v = 0 THEN <<Quote, Backslash, LowerX, Digit0, Digit0, Quote>>
         ELSE <<Quote, v, Quote>>
    ELSE Digits(v)

\* the items of str(codes), joined by ", "
RECURSIVE ReprItems(_, _)
ReprItems(codebook, module) ==
    IF codebook = <<>> THEN <<>>
    ELSE ReprKey(Head(codebook)[1], module) \o <<Colon, Space>>
         \o ReprCode(Head(codebook)[2])
         \o (IF Len(codebook) > 1 THEN <<Comma, Space>> ELSE <<>>)
         \o ReprItems(Tail(codebook), module)

\* str(codes).encode()
ReprCodes(codebook, module) ==
    <<OpenBrace>> \o ReprItems(codebook, module) \o <<CloseBrace>>

\* ''.join(codes[value] for value in data)
RECURSIVE EncodeSymbols(_, _)
EncodeSymbols(s, codebook) ==
    IF s = <<>> THEN <<>>
    ELSE CodeFor(codebook, Head(s)) \o EncodeSymbols(Tail(s), codebook)

\* '0' * n
RECURSIVE Zeros(_)
Zeros(n) == IF n = 0 THEN <<>> ELSE <<0>> \o Zeros(n - 1)

IndexError == <<-1>>

\* huffman_encode(data): the pad length, the packed bits, then the length of
\* str(codes) on four bytes and str(codes).  heap[0] of an empty heap raises.
huffman_encode(s, module) ==
    IF s = <<>> THEN IndexError
    ELSE
    LET codes == CodesOf(s, module)
        bits == EncodeSymbols(s, codes)
        padding == 8 - (Len(bits) % 8)
        codes_str == ReprCodes(codes, module)
    IN  <<padding>> \o PackBits(bits \o Zeros(padding))
        \o ToBytes4(Len(codes_str)) \o codes_str

----------------------------------------------------------------------------
(* Codec primitives: run-length and LZ77 *)

\* the for loop of run_length_encode: rest is what is left of data[1:]
RECURSIVE RunLengthLoop(_, _, _, _)
RunLengthLoop(rest, current, count, out) ==
    IF rest = <<>>
    THEN out \o <<current>> \o Digits(count)
    ELSE IF Head(rest) = current
         THEN RunLengthLoop(Tail(rest), current, count + 1, out)
         ELSE RunLengthLoop(Tail(rest), Head(rest), 1,
                            out \o <<current>> \o Digits(count))

\* run_length_encode(data): each run as its symbol, then str(count)
run_length_encode(s) ==
    IF s = <<>> THEN <<>> ELSE RunLengthLoop(Tail(s), Head(s), 1, <<>>)

\* variant of the bound on a match: one symbol beyond the lookahead
UpToLookahead(match_length, lookahead) == match_length <= lookahead

\* "match_length < lookahead_size" in the inner loop's condition
WithinLookahead(match_length, lookahead) == match_length < lookahead

\* the inner while loop of lz77_encode; i and pos are 0-based
RECURSIVE MatchLength(_, _, _, _, _)
MatchLength(s, i, pos, lookahead_size, match_length) ==
    IF /\ pos + match_length < Len(s)
       /\ WithinLookahead(match_length, lookahead_size)
       /\ s[i + match_length + 1] = s[pos + match_length + 1]
    THEN MatchLength(s, i, pos, lookahead_size, match_length + 1)
    ELSE match_length

\* "for i in range(window_start, pos)": best_match as <<offset, length>>
RECURSIVE BestMatch(_, _, _, _, _)
BestMatch(s, i, pos, lookahead_size, best_match) ==
    IF i >= pos THEN best_match
    ELSE BestMatch(s, i + 1, pos, lookahead_size,
             IF MatchLength(s, i, pos, lookahead_size, 0) > best_match[2]
             THEN <<pos - i, MatchLength(s, i, pos, lookahead_size, 0)>>
             ELSE best_match)

OverflowError == <<-2>>

\* n.to_bytes(2, 'big')
ToBytes2(n) == <<n \div 256, n % 256>>

\* variant of the step after a match: past the match only, not past the
\* symbol that follows it
AdvanceByLength(pos, length) == pos + length

\* "pos += best_match[1] + 1"
Advance(pos, length) == pos + length + 1

\* variant of the test for a match: lengths above three only
FoundMatchAboveThree(best_match) == best_match[2] > 3

\* "if best_match[1] > 2": the match is emitted as a token
FoundMatch(best_match) == best_match[2] > 2

RECURSIVE LZ77Loop(_, _, _, _, _)

\* the body of the while loop once best_match is known: a match token
\* (offset on two bytes, length on one, the next symbol if there is one) or a
\* literal (two zero bytes, the symbol)
LZ77Step(s, pos, window_size, lookahead_size, out, best_match) ==
    IF FoundMatch(best_match)
    THEN IF best_match[1] > 65535 \/ best_match[2] > 255 THEN OverflowError
         ELSE LZ77Loop(s, Advance(pos, best_match[2]), window_size, lookahead_size,
                  out \o ToBytes2(best_match[1]) \o <<best_match[2]>>
                  \o (IF pos + best_match[2] < Len(s)
                      THEN <<s[pos + best_match[2] + 1]>> ELSE <<>>))
    ELSE LZ77Loop(s, pos + 1, window_size, lookahead_size,
                  out \o <<0, 0, s[pos + 1]>>)

\* the outer while loop of lz77_encode
LZ77Loop(s, pos, window_size, lookahead_size, out) ==
    IF pos >= Len(s) THEN out
    ELSE LZ77Step(s, pos, window_size, lookahead_size, out,
             BestMatch(s, IF pos - window_size > 0 THEN pos - window_size ELSE 0,
                       pos, lookahead_size, <<0, 0>>))

\* lz77_encode(data, window_size, lookahead_size)
lz77_encode(s, window_size, lookahead_size) ==
    LZ77Loop(s, 0, window_size, lookahead_size, <<>>)

----------------------------------------------------------------------------
(* Claims about the candidate loops *)

Returned == pc = "done"
Candidates == 1..3
Completed(i) == measured[i] # NotMeasured
Started(i) == seen[i] # NotStarted
NoCandidateSmaller ==
    \A i \in Candidates : Completed(i) => measured[i] >= original_size

\* r is the quotient a / b
IsQuotient(r, a, b) == b # 0 /\ r[1] * b = r[2] * a

\* C1 as stated: a result with success = true has compressed_size <
\* original_size and ratio = original_size / compressed_size.
C1_SuccessRatioIsQuotient ==
    (Returned /\ result.success) =>
        /\ result.compressed_size < result.original_size
        /\ IsQuotient(result.ratio, result.original_size, result.compressed_size)

\* C1 amended: a result with success = true has compressed_size <
\* original_size (the measured input size), and ratio = original_size /
\* compressed_size when compressed_size > 0, ratio = 1 when it is 0.
C1_SuccessRatioOrOne ==
    (Returned /\ result.success) =>
        /\ result.original_size = original_size
        /\ result.compressed_size < result.original_size
        /\ result.compressed_size > 0 =>
              IsQuotient(result.ratio, result.original_size, result.compressed_size)
        /\ result.compressed_size = 0 => result.ratio = <<1, 1>>

C1_Witness ==
    /\ Returned /\ result.success
    /\ result.compressed_size > 0
    /\ raised # {}
    /\ \E i \in Candidates : Completed(i) /\ measured[i] >= original_size

C3_BestIsMinimum ==
    (Returned /\ result.success) =>
        \A i \in Candidates : Completed(i) => result.compressed_size <= measured[i]

C3_Witness ==
    /\ Returned /\ result.success
    /\ \E i, j \in Candidates :
          /\ Completed(i) /\ Completed(j)
          /\ measured[i] < measured[j] /\ measured[j] < original_size
          /\ result.compressed_size = measured[i]

\* C4 as stated: a candidate that raises, at any point and at any position
\* of the list, is skipped and every later candidate is still executed.
C4_RaisingCandidateIsSkipped ==
    (Returned /\ raised # {}) => \A i \in Candidates : Started(i)

\* C5 as stated: every candidate is handed the original payload, whatever
\* ran before it.
C5_CandidateSeesOriginal ==
    \A i \in Candidates : Started(i) => seen[i] = Original

\* C6 as stated: output_path is written only by promoting a temp file found
\* strictly smaller than the best so far, and a call returning success =
\* false has not written output_path.
C6_OutputOnlyByPromotion ==
    /\ \A n \in 1..Len(output_writes) :
          /\ output_writes[n].how = "promote"
          /\ output_writes[n].size < output_writes[n].best
    /\ (Returned /\ ~result.success) => output_writes = <<>>

----------------------------------------------------------------------------
(* Decoders, as the specification describes them *)

\* the eight bits of a byte, most significant first
BitsOf(byte) ==
    <<(byte \div 128) % 2, (byte \div 64) % 2, (byte \div 32) % 2,
      (byte \div 16) % 2, (byte \div 8) % 2, (byte \div 4) % 2,
      (byte \div 2) % 2, byte % 2>>

RECURSIVE UnpackBits(_)
UnpackBits(b) ==
    IF b = <<>> THEN <<>> ELSE BitsOf(Head(b)) \o UnpackBits(Tail(b))

\* where the serialized codebook starts: its opening brace
LastOpenBrace(b) ==
    CHOOSE k \in 1..Len(b) :
        b[k] = OpenBrace /\ \A j \in (k + 1)..Len(b) : b[j] # OpenBrace

\* the first index from p on that holds byte c
FirstIndexOf(b, p, c) ==
    CHOOSE k \in p..Len(b) : b[k] = c /\ \A j \in p..(k - 1) : b[j] # c

\* a decimal numeral read back
RECURSIVE Number(_, _)
Number(digits, sofar) ==
    IF digits = <<>> THEN sofar
    ELSE Number(Tail(digits), 10 * sofar + (Head(digits) - Digit0))

HexDigit(c) == IF c >= 97 THEN c - 87 ELSE c - Digit0

\* a key of the serialized codebook read back: an int, or a quoted character
\* (possibly written as \xhh)
ParseKey(k, module) ==
    IF module = "docx"
    THEN IF Len(k) = 3 THEN k[2] ELSE 16 * HexDigit(k[4]) + HexDigit(k[5])
    ELSE Number(k, 0)

\* '0' and '1' characters read back as bits
RECURSIVE CharBits(_)
CharBits(chars) ==
    IF chars = <<>> THEN <<>>
    ELSE <<Head(chars) - Digit0>> \o CharBits(Tail(chars))

RECURSIVE ParseItems(_, _, _)

\* one "key: 'bits'" item starting at p, its colon at colon
ParseItem(b, p, module, colon, close) ==
    << <<ParseKey(SubSeq(b, p, colon - 1), module),
         CharBits(SubSeq(b, colon + 3, close - 1))>> >>
    \o ParseItems(b, IF b[close + 1] = Comma THEN close + 3 ELSE close + 1, module)

\* the items of the serialized codebook from index p on
ParseItems(b, p, module) ==
    IF b[p] = CloseBrace THEN <<>>
    ELSE ParseItem(b, p, module, FirstIndexOf(b, p, Colon),
                   FirstIndexOf(b, FirstIndexOf(b, p, Colon) + 3, Quote))

\* walking the codebook bit by bit
RECURSIVE DecodeBits(_, _, _)
DecodeBits(bits, current, codebook) ==
    IF bits = <<>> THEN <<>>
    ELSE IF \E n \in 1..Len(codebook) : codebook[n][2] = Append(current, Head(bits))
         THEN <<codebook[CHOOSE n \in 1..Len(codebook) :
                    codebook[n][2] = Append(current, Head(bits))][1]>>
              \o DecodeBits(Tail(bits), <<>>, codebook)
         ELSE DecodeBits(Tail(bits), Append(current, Head(bits)), codebook)

\* the packed bits without the padding the first byte counts
CodeBits(b, start) ==
    SubSeq(UnpackBits(SubSeq(b, 2, start - 5)), 1,
           8 * (start - 6) - b[1])

\* decoding the output of huffman_encode from that output alone
huffman_decode(b, module) ==
    DecodeBits(CodeBits(b, LastOpenBrace(b)), <<>>,
               ParseItems(b, LastOpenBrace(b) + 1, module))

\* copying length symbols from offset back, one at a time, so that a match
\* may overlap what it produces
RECURSIVE CopyBack(_, _, _)
CopyBack(out, offset, length) ==
    IF length = 0 THEN out
    ELSE CopyBack(Append(out, out[Len(out) - offset + 1]), offset, length - 1)

\* replaying the token stream of lz77_encode from byte index p on
RECURSIVE lz77_decode(_, _, _)
lz77_decode(b, p, out) ==
    IF p > Len(b) THEN out
    ELSE IF b[p] = 0 /\ b[p + 1] = 0
         THEN lz77_decode(b, p + 3, Append(out, b[p + 2]))
         ELSE IF p + 3 <= Len(b)
              THEN lz77_decode(b, p + 4,
                       Append(CopyBack(out, 256 * b[p] + b[p + 1], b[p + 2]), b[p + 3]))
              ELSE CopyBack(out, 256 * b[p] + b[p + 1], b[p + 2])

IsDigit(c) == c \in Digit0..(Digit0 + 9)

\* the last index of the decimal count that starts at p
CountEnd(b, p) ==
    CHOOSE k \in p..Len(b) :
        /\ \A j \in p..k : IsDigit(b[j])
        /\ k = Len(b) \/ ~IsDigit(b[k + 1])

\* n copies of v
RECURSIVE Repeat(_, _)
Repeat(v, n) ==
    IF n = 0 THEN <<>>
    ELSE IF n % 2 = 1 THEN <<v>> \o Repeat(v, n \div 2) \o Repeat(v, n \div 2)
         ELSE Repeat(v, n \div 2) \o Repeat(v, n \div 2)

\* expanding the runs of run_length_encode's output from byte index p on: a
\* symbol byte, then its count in decimal digits
RECURSIVE run_length_decode(_, _)
run_length_decode(b, p) ==
    IF p > Len(b) THEN <<>>
    ELSE Repeat(b[p], Number(SubSeq(b, p + 1, CountEnd(b, p + 1)), 0))
         \o run_length_decode(b, CountEnd(b, p + 1) + 1)

----------------------------------------------------------------------------
(* The codec primitives applied to bounded inputs *)

MaxLen == 5
SmallWindow == 2
SmallLookahead == 3

\* a NUL, the digit '1' and the letter 'a'
Syms == {0, 49, 97}

\* lz77_encode's defaults
window_size == 4096
lookahead_size == 64

\* longer inputs in which a repeat occurs a third time
RepeatingInputs ==
    {<<97, 97, 97, 97, 97, 97, 97, 97>>,
     <<97, 49, 0, 97, 49, 0, 49, 97, 49, 0>>}

CodecInputs == UNION {[1..n -> Syms] : n \in 0..MaxLen} \cup RepeatingInputs

\* the defaults, and a window and a lookahead short enough to cut matches
LZ77Params == {<<window_size, lookahead_size>>, <<SmallWindow, SmallLookahead>>}

\* no compress_* call in progress
OrchIdle ==
    /\ kind = "video"
    /\ is_lossy = FALSE
    /\ pc = "idle"
    /\ idx = 1
    /\ original_size = 0
    /\ best_compressed_size = 0
    /\ best_algorithm = None
    /\ temp_output_bound = FALSE
    /\ temp_file = NoFile
    /\ temp_open = {}
    /\ output_file = NoFile
    /\ input_file = Original
    /\ reader_pages = Original
    /\ seen = [i \in 1..3 |-> NotStarted]
    /\ measured = [i \in 1..3 |-> NotMeasured]
    /\ raised = {}
    /\ output_writes = <<>>
    /\ final_size = NotMeasured
    /\ result = Failure("pending")

CodecInit ==
    /\ OrchIdle
    /\ EntryIdle
    /\ codec = "none"
    /\ impl = "none"
    /\ data \in CodecInputs
    /\ encoded = <<>>

\* huffman_encode(data) of one of the three modules
HuffmanEncode ==
    /\ codec = "none"
    /\ \E module \in Kinds :
        /\ impl' = module
        /\ encoded' = huffman_encode(data, module)
    /\ codec' = "huffman"
    /\ UNCHANGED <<data, orchVars, entryVars>>

\* run_length_encode(data) of one of the three modules
RunLengthEncode ==
    /\ codec = "none"
    /\ \E module \in Kinds : impl' = module
    /\ encoded' = run_length_encode(data)
    /\ codec' = "rle"
    /\ UNCHANGED <<data, orchVars, entryVars>>

\* lz77_encode(data) of one of the three modules
LZ77Encode ==
    /\ codec = "none"
    /\ \E module \in Kinds : impl' = module
    /\ \E params \in LZ77Params :
        encoded' = lz77_encode(data, params[1], params[2])
    /\ codec' = "lz77"
    /\ UNCHANGED <<data, orchVars, entryVars>>

CodecNext == HuffmanEncode \/ RunLengthEncode \/ LZ77Encode

SpecCodec == CodecInit /\ [][CodecNext]_vars

----------------------------------------------------------------------------
(* Claims about the codec primitives *)

\* C8 as stated: for every non-empty S, decoding huffman_encode(S) by reading
\* the codebook and walking it bit by bit returns exactly S, in each of the
\* three implementations.
C8_HuffmanRoundTrip ==
    (codec = "huffman" /\ data # <<>>) => huffman_decode(encoded, impl) = data

C10_RunLengthRoundTrip ==
    codec = "rle" => run_length_decode(encoded, 1) = data

----------------------------------------------------------------------------
(* compress_image *)

\* qualities on both sides of the retry test "quality > 20", and the ends of
\* the range: 100, 50 and 21 lead to retries at 80 .. 20, 30 and 10, and 1
Qualities == {1, 20, 21, 50, 100}

\* the sizes a saved image file can have (it is never empty)
ImageSizes == 1..(MaxSize + 1)

ImageInit ==
    /\ kind = "image"
    /\ is_lossy \in BOOLEAN
    /\ quality \in Qualities
    /\ pc = "start"
    /\ idx = 1
    /\ original_size \in 1..MaxSize
    /\ best_compressed_size = 0
    /\ best_algorithm = None
    /\ temp_output_bound = FALSE
    /\ temp_file = NoFile
    /\ temp_open = {}
    /\ output_file \in {NoFile, [by |-> "earlier call", size |-> 1]}
    /\ input_file = Original
    /\ reader_pages = Original
    /\ seen = [i \in 1..3 |-> NotStarted]
    /\ measured = [i \in 1..3 |-> NotMeasured]
    /\ raised = {}
    /\ output_writes = <<>>
    /\ final_size = NotMeasured
    /\ result = Failure("pending")
    /\ CodecIdle
    /\ PipelineIdle

\* "if compressed_size >= original_size"
Ineffective(compressed_size, orig) == compressed_size >= orig

\* the algorithm name of the first save
FirstFormat(lossy) ==
    IF lossy THEN "JPEG DCT Compression" ELSE "PNG DEFLATE Compression"

\* img.save(output_path, ...): the file it leaves and the record of the write
Saved(alg, size) ==
    /\ output_file' = [by |-> alg, size |-> size]
    /\ output_writes' = Append(output_writes,
           [how |-> "direct", by |-> alg, size |-> size, best |-> original_size])

\* Image.open, getsize or convert raises: the handler returns the error
ImageOpenFails ==
    /\ pc = "start"
    /\ pc' = "done"
    /\ result' = Failure("exception")
    /\ UNCHANGED <<output_file, output_writes, quality>>

\* a save raises, with or without a partial file left at output_path
ImageSaveFails ==
    /\ pc = "start"
    /\ pc' = "done"
    /\ result' = Failure("exception")
    /\ \/ Saved(FirstFormat(is_lossy), 0)
       \/ UNCHANGED <<output_file, output_writes>>
    /\ quality' = quality

\* one invocation that gets past its first save: the retry at quality - 20 (the
\* recursive call starts over), the lossless fall-back to JPEG at quality 100,
\* or the return of whatever was measured
ImageSave ==
    /\ pc = "start"
    /\ \E compressed_size \in ImageSizes :
        IF Ineffective(compressed_size, original_size) /\ is_lossy /\ quality > 20
        THEN /\ Saved(FirstFormat(is_lossy), compressed_size)
             /\ quality' = quality - 20
             /\ pc' = "start"
             /\ result' = result
        ELSE IF Ineffective(compressed_size, original_size) /\ ~is_lossy
        THEN /\ quality' = quality
             /\ pc' = "done"
             /\ \/ \E second \in ImageSizes :
                    /\ output_file' = [by |-> "JPEG Lossless Mode", size |-> second]
                    /\ output_writes' = output_writes
                           \o <<[how |-> "direct", by |-> FirstFormat(is_lossy),
                                 size |-> compressed_size, best |-> original_size],
                                [how |-> "direct", by |-> "JPEG Lossless Mode",
                                 size |-> second, best |-> original_size]>>
                    /\ result' = Success(original_size, second, "JPEG Lossless Mode")
                \/ /\ Saved(FirstFormat(is_lossy), compressed_size)
                   /\ result' = Failure("exception")
        ELSE /\ Saved(FirstFormat(is_lossy), compressed_size)
             /\ quality' = quality
             /\ pc' = "done"
             /\ result' = Success(original_size, compressed_size,
                                  FirstFormat(is_lossy))

compress_image ==
    /\ ImageOpenFails \/ ImageSaveFails \/ ImageSave
    /\ UNCHANGED <<kind, is_lossy, idx, original_size, best_compressed_size,
                   best_algorithm, temp_output_bound, temp_file, input_file,
                   reader_pages, seen, measured, raised, final_size>>
    /\ UNCHANGED <<temp_open, codecVars, pipelineVars>>

ImageNext == compress_image

SpecImage == ImageInit /\ [][ImageNext]_vars

\* C11 as stated: whenever compress_image returns success = true, in either
\* mode, at any quality and after any number of retries, compressed_size <
\* original_size and ratio = original_size / compressed_size.
C11_ImageSuccessIsSmaller ==
    (kind = "image" /\ Returned /\ result.success) =>
        /\ result.compressed_size < result.original_size
        /\ IsQuotient(result.ratio, result.original_size, result.compressed_size)

----------------------------------------------------------------------------
(* The text entry points *)

MaxTextLen == 3

\* newline, space, comma, 'A', 'a' and e-acute (two bytes in UTF-8)
TextSyms == {10, 32, 44, 65, 97, 233}

Texts == UNION {[1..n -> TextSyms] : n \in 0..MaxTextLen}

\* qualities on both sides of every test: 1 <= quality <= 100,
\* quality / 100 < 0.7 and quality / 100 < 0.5
TextQualities == {0, 1, 49, 50, 69, 70, 100, 101}

\* len(text.encode('utf-8')) for characters below U+0800
RECURSIVE Utf8Len(_)
Utf8Len(text) ==
    IF text = <<>> THEN 0
    ELSE (IF Head(text) < 128 THEN 1 ELSE 2) + Utf8Len(Tail(text))

\* \s and \w of the re module, on the characters below U+0100 that matter here
IsSpace(c) == c \in 9..13 \/ c = 32
IsWord(c) ==
    c \in Digit0..(Digit0 + 9) \/ c \in 65..90 \/ c \in 97..122 \/ c = 95 \/ c = 233

RECURSIVE SkipSpace(_)
SkipSpace(text) ==
    IF text # <<>> /\ IsSpace(Head(text)) THEN SkipSpace(Tail(text)) ELSE text

\* re.sub(r'\s+', ' ', text)
RECURSIVE CollapseWhitespace(_)
CollapseWhitespace(text) ==
    IF text = <<>> THEN <<>>
    ELSE IF IsSpace(Head(text))
         THEN <<Space>> \o CollapseWhitespace(SkipSpace(text))
         ELSE <<Head(text)>> \o CollapseWhitespace(Tail(text))

\* re.sub(r'[^\w\s]', '', text)
RECURSIVE RemovePunctuation(_)
RemovePunctuation(text) ==
    IF text = <<>> THEN <<>>
    ELSE (IF IsWord(Head(text)) \/ IsSpace(Head(text)) THEN <<Head(text)>> ELSE <<>>)
         \o RemovePunctuation(Tail(text))

\* text.lower()
RECURSIVE Lower(_)
Lower(text) ==
    IF text = <<>> THEN <<>>
    ELSE <<IF Head(text) \in 65..90 THEN Head(text) + 32 ELSE Head(text)>>
         \o Lower(Tail(text))

\* the text compress_text_lossy returns for a non-empty text
LossyText(text, q) ==
    LET collapsed == CollapseWhitespace(text)
        stripped == IF q < 70 THEN RemovePunctuation(collapsed) ELSE collapsed
    IN  IF q < 50 THEN Lower(stripped) ELSE stripped

\* an exception leaving the function
Raises(err) == [raises |-> err]

\* compress_text_lossy(text, quality): <<text, metadata>>, or what it raises
compress_text_lossy(text, q) ==
    IF text = <<>>
    THEN <<text, [algorithm |-> "Lossy Text Compression", original_size |-> 0,
                  compressed_size |-> 0, ratio |-> <<0, 1>>]>>
    ELSE IF ~(1 <= q /\ q <= 100)
    THEN <<text, Raises("RuntimeError: Lossy compression failed")>>
    ELSE <<LossyText(text, q),
           [algorithm |-> "Lossy Text Compression",
            original_size |-> Utf8Len(text),
            compressed_size |-> Utf8Len(LossyText(text, q)),
            ratio |-> Ratio(Utf8Len(text), Utf8Len(LossyText(text, q))),
            quality_factor |-> <<q, 100>>,
            success |-> TRUE]>>

\* variant of the byte count: the bits themselves
BitsAsBytes(nbits) == nbits

\* "(len(encoded) + 7) // 8"
BitsToBytes(nbits) == (nbits + 7) \div 8

\* compress_text_lossless(text, quality): <<encoded, metadata>>; encoded is the
\* str of '0' and '1'
compress_text_lossless(text, q) ==
    IF text = <<>>
    THEN <<text, [algorithm |-> "Lossless Text Compression (Huffman)",
                  original_size |-> 0, compressed_size |-> 0, ratio |-> <<0, 1>>,
                  success |-> TRUE]>>
    ELSE LET codes == CodesOf(text, "text")
             bits == EncodeSymbols(text, codes)
         IN  <<BitChars(bits),
               [algorithm |-> "Lossless Text Compression (Huffman)",
                original_size |-> Utf8Len(text),
                compressed_size |-> BitsToBytes(Len(bits)),
                ratio |-> Ratio(Utf8Len(text), BitsToBytes(Len(bits))),
                huffman_codes |-> codes,
                success |-> TRUE]>>

TextInit ==
    /\ kind = "text"
    /\ is_lossy \in BOOLEAN
    /\ quality \in TextQualities
    /\ data \in Texts
    /\ pc = "start"
    /\ idx = 1
    /\ original_size = 0
    /\ best_compressed_size = 0
    /\ best_algorithm = None
    /\ temp_output_bound = FALSE
    /\ temp_file = NoFile
    /\ temp_open = {}
    /\ output_file = NoFile
    /\ input_file = Original
    /\ reader_pages = Original
    /\ seen = [i \in 1..3 |-> NotStarted]
    /\ measured = [i \in 1..3 |-> NotMeasured]
    /\ raised = {}
    /\ output_writes = <<>>
    /\ final_size = NotMeasured
    /\ result = Failure("pending")
    /\ codec = "none"
    /\ impl = "none"
    /\ encoded = <<>>
    /\ PipelineIdle

\* a direct call of compress_text_lossless(data, quality)
TextLossless ==
    /\ pc = "start"
    /\ pc' = "done"
    /\ codec' = "compress_text_lossless"
    /\ encoded' = compress_text_lossless(data, quality)[1]
    /\ result' = compress_text_lossless(data, quality)[2]
    /\ UNCHANGED <<output_file, output_writes>>

\* a direct call of compress_text_lossy(data, quality)
TextLossy ==
    /\ pc = "start"
    /\ pc' = "done"
    /\ codec' = "compress_text_lossy"
    /\ encoded' = compress_text_lossy(data, quality)[1]
    /\ result' = compress_text_lossy(data, quality)[2]
    /\ UNCHANGED <<output_file, output_writes>>

\* the dict of compress_text's three handlers
ErrorResult(err) ==
    [success |-> FALSE, error |-> err, algorithm |-> "Text Compression",
     original_size |-> 0, compressed_size |-> 0, ratio |-> <<0, 1>>]

\* "if not text: raise ValueError"
RejectsEmpty(text) == text = <<>>

\* compress_text_lossy or compress_text_lossless, as is_lossy says
Compressed(text, lossy, q) ==
    IF lossy THEN compress_text_lossy(text, q) ELSE compress_text_lossless(text, q)

\* metadata.update({...})
Updated(metadata, lossy, q) ==
    [success |-> TRUE, compression_type |-> IF lossy THEN "lossy" ELSE "lossless",
     quality |-> q] @@ metadata

\* compress_text(input_path, output_path, is_lossy, quality) on a file that
\* holds data, if it exists
compress_text ==
    /\ pc = "start"
    /\ pc' = "done"
    /\ codec' = "compress_text"
    /\ \E exists \in BOOLEAN, written \in {"ok", "partial", "not at all"} :
        IF ~exists
        THEN /\ result' = ErrorResult("File error")
             /\ UNCHANGED <<encoded, output_file, output_writes>>
        ELSE IF ~(1 <= quality /\ quality <= 100) \/ RejectsEmpty(data)
        THEN /\ result' = ErrorResult("Validation error")
             /\ UNCHANGED <<encoded, output_file, output_writes>>
        ELSE IF "raises" \in DOMAIN Compressed(data, is_lossy, quality)[2]
        THEN /\ result' = ErrorResult("Unknown error")
             /\ UNCHANGED <<encoded, output_file, output_writes>>
        ELSE IF written = "ok"
        THEN /\ encoded' = Compressed(data, is_lossy, quality)[1]
             /\ Saved(Compressed(data, is_lossy, quality)[2].algorithm,
                      Utf8Len(Compressed(data, is_lossy, quality)[1]))
             /\ result' = Updated(Compressed(data, is_lossy, quality)[2],
                                  is_lossy, quality)
        ELSE /\ result' = ErrorResult("Unknown error")
             /\ encoded' = encoded
             /\ IF written = "partial" THEN Saved("partial write", 0)
                ELSE UNCHANGED <<output_file, output_writes>>

TextNext ==
    /\ TextLossless \/ TextLossy \/ compress_text
    /\ UNCHANGED <<kind, is_lossy, idx, original_size, best_compressed_size,
                   best_algorithm, temp_output_bound, temp_file, input_file,
                   reader_pages, seen, measured, raised, final_size>>
    /\ UNCHANGED <<temp_open, impl, data, quality, pipelineVars>>

SpecText == TextInit /\ [][TextNext]_vars

\* the returned dict says success = true
ReportsSuccess == "success" \in DOMAIN result /\ result.success = TRUE

\* the lossless path ran: directly, or through compress_text
LosslessRun ==
    \/ codec = "compress_text_lossless"
    \/ codec = "compress_text" /\ ~is_lossy

\* C12 as stated: for every non-empty text, a result of the lossless path with
\* success = true has compressed_size < original_size and ratio =
\* original_size / compressed_size.
C12_LosslessSuccessIsSmaller ==
    (kind = "text" /\ Returned /\ LosslessRun /\ data # <<>> /\ ReportsSuccess) =>
        /\ result.compressed_size < result.original_size
        /\ IsQuotient(result.ratio, result.original_size, result.compressed_size)

\* the input file was not there
InputMissing == "error" \in DOMAIN result /\ result.error = "File error"

\* C13 as stated: on an empty text every text entry point (compress_text on an
\* existing empty file, with a quality in 1..100) returns success = true with
\* original_size = 0, compressed_size = 0 and ratio = 0.
C13_EmptyTextIsDegenerateSuccess ==
    (kind = "text" /\ Returned /\ data = <<>> /\ quality \in 1..100
     /\ ~InputMissing) =>
        /\ ReportsSuccess
        /\ result.original_size = 0
        /\ result.compressed_size = 0
        /\ result.ratio = <<0, 1>>

----------------------------------------------------------------------------
(* The video transform pipeline: apply_quantization *)

\* the standard quantization matrix, row by row
StandardMatrix ==
    <<16, 11, 10, 16, 24, 40, 51, 61,
      12, 12, 14, 19, 26, 58, 60, 55,
      14, 13, 16, 24, 40, 57, 69, 56,
      14, 17, 22, 29, 51, 87, 80, 62,
      18, 22, 37, 56, 68, 109, 103, 77,
      24, 35, 55, 64, 81, 104, 113, 92,
      49, 64, 78, 87, 103, 121, 120, 101,
      72, 92, 95, 98, 112, 100, 103, 99>>

\* variant of the scale that grows with the quality above 50
ScaleRising(q) == IF q < 50 THEN <<50, q>> ELSE <<q - 50, 50>>

\* "scale = 50.0 / quality" below 50, "(100 - quality) / 50.0" from 50 on, as
\* the fraction <<numerator, denominator>>
Scale(q) == IF q < 50 THEN <<50, q>> ELSE <<100 - q, 50>>

\* "q_matrix = q_matrix * scale", entry by entry
RECURSIVE ScaleMatrix(_, _)
ScaleMatrix(matrix, scale) ==
    IF matrix = <<>> THEN <<>>
    ELSE << <<Head(matrix) * scale[1], scale[2]>> >> \o ScaleMatrix(Tail(matrix), scale)

\* floor of n / d for d > 0
FloorDiv(n, d) == IF n >= 0 THEN n \div d ELSE -((-n + d - 1) \div d)

\* np.round(n / d) for d > 0: to the nearest integer, halves to the even one
RoundHalfEven(n, d) ==
    LET f == FloorDiv(n, d)
        twice == 2 * (n - f * d)
    IN  IF twice < d THEN f
        ELSE IF twice > d THEN f + 1
        ELSE IF f % 2 = 0 THEN f ELSE f + 1

NaN == "nan"

\* "np.round(c / q) * q" for one coefficient c and one matrix entry q > 0 or
\* q = 0; a division by 0.0 gives inf or nan, and times 0.0 that is nan
QuantizeEntry(c, q) ==
    IF q[1] = 0 THEN NaN
    ELSE <<RoundHalfEven(c * q[2], q[1]) * q[1], q[2]>>

RECURSIVE QuantizeBlock(_, _)
QuantizeBlock(block, matrix) ==
    IF block = <<>> THEN <<>>
    ELSE <<QuantizeEntry(Head(block), Head(matrix))>>
         \o QuantizeBlock(Tail(block), Tail(matrix))

\* apply_quantization(dct_block, quality): the call's record
apply_quantization(dct_block, q) ==
    [quality |-> q,
     scale |-> Scale(q),
     q_matrix |-> ScaleMatrix(StandardMatrix, Scale(q)),
     quantized |-> QuantizeBlock(dct_block, ScaleMatrix(StandardMatrix, Scale(q)))]

\* the 8x8 DCT blocks quantized: coefficients falling from 42 to -147
DctBlocks == {[i \in 1..64 |-> 45 - 3 * i]}

\* every call apply_quantization(dct_block, q), q anywhere in 1..100
Calls == {apply_quantization(dct_block, q) : dct_block \in DctBlocks, q \in 1..100}

\* the idle state of everything but the pipeline
OthersIdle ==
    /\ OrchIdle
    /\ CodecIdle
    /\ quality = 50
    /\ AppIdle

QuantInit ==
    /\ OthersIdle
    /\ PipelineIdle

\* the call before, if any, followed by the call just made
PreviousAnd(call) ==
    IF quantizations = <<>> THEN <<call>>
    ELSE <<quantizations[Len(quantizations)], call>>

\* one call of apply_quantization; quantizations keeps the call and the one
\* before it
Quantize ==
    /\ \E call \in Calls :
        quantizations' = PreviousAnd(call)
    /\ UNCHANGED <<frame1, frame2, motion_vectors, chunkVars, quality, orchVars,
                   codecVars, appVars>>

QuantNext == Quantize

SpecQuant == QuantInit /\ [][QuantNext]_vars

\* a / b <= c / d for fractions with positive denominators
FractionLeq(x, y) == x[1] * y[2] <= y[1] * x[2]

\* C14: for any two qualities q1 < q2 in 1..100 the scale apply_quantization
\* derives satisfies scale(q2) <= scale(q1).
C14_ScaleNeverIncreases ==
    \A i, j \in 1..Len(quantizations) :
        quantizations[i].quality < quantizations[j].quality =>
            FractionLeq(quantizations[j].scale, quantizations[i].scale)

\* two calls on both sides of quality 50, the scale strictly smaller at the
\* higher quality
C14_Witness ==
    \E i, j \in 1..Len(quantizations) :
        /\ quantizations[i].quality = 49
        /\ quantizations[j].quality = 50
        /\ ~FractionLeq(quantizations[i].scale, quantizations[j].scale)

(***************************************************************************)
(* The video transform pipeline: apply_motion_estimation                   *)
(***************************************************************************)

\* 'block_size': 16 of the lossy algorithms that estimate motion
block_size == 16

\* search_range = 16
search_range == 16

\* the frames' height and width in pixels: one complete block, and room to
\* displace it by one pixel down and to the right
FrameHeight == 17
FrameWidth == 17

\* the luma values a pixel takes
Lumas == {0, 100, 101}

\* a grayscale frame: the left column a, the right column and the bottom row
\* c, every other pixel b
Frame(a, b, c) ==
    [r \in 1..FrameHeight |->
        [col \in 1..FrameWidth |->
            IF r = FrameHeight \/ col = FrameWidth THEN c
            ELSE IF col = 1 THEN a
            ELSE b]]

\* the frames a video delivers
Frames == {Frame(a, b, c) : a, b, c \in Lumas}

\* the previous frame as process_frame_chunk passes it: a uint8 array under
\* 'Motion Compensation', the float32 output of process_dct_frame under
\* 'Hybrid Compression'
PreviousFrames == {[dtype |-> t, pixels |-> f] : t \in {"uint8", "float32"}, f \in Frames}

\* |a - b| over the integers
AbsDiff(a, b) == IF a < b THEN b - a ELSE a - b

\* np.abs(a - b) for one pixel of the block and one of frame1: the
\* difference of two uint8 values is a uint8, reduced modulo 256, and np.abs
\* leaves it as it is; against a float32 array it is exact
PixelDiff(a, b, dtype) ==
    IF dtype = "uint8" THEN (a - b) % 256 ELSE AbsDiff(a, b)

\* the sum over the first n pixels of row r2 of the block at column x of
\* pixels2 against row r1 of pixels1 from column x + dx
RECURSIVE RowDiff(_, _, _, _, _, _, _, _)
RowDiff(pixels1, pixels2, r1, r2, x, dx, n, dtype) ==
    IF n = 0 THEN 0
    ELSE PixelDiff(pixels2[r2][x + n], pixels1[r1][x + dx + n], dtype)
         + RowDiff(pixels1, pixels2, r1, r2, x, dx, n - 1, dtype)

\* np.sum(np.abs(block - frame1[y+dy:y+dy+bs, x+dx:x+dx+bs])) over the
\* first n rows of the block at (x, y)
RECURSIVE BlockDiff(_, _, _, _, _, _, _, _, _)
BlockDiff(pixels1, pixels2, y, x, dx, dy, bs, n, dtype) ==
    IF n = 0 THEN 0
    ELSE RowDiff(pixels1, pixels2, y + dy + n, y + n, x, dx, bs, dtype)
         + BlockDiff(pixels1, pixels2, y, x, dx, dy, bs, n - 1, dtype)

\* the search window lies within frame1
InFrame(y, x, dx, dy, bs, height, width) ==
    /\ y + dy >= 0
    /\ y + dy + bs <= height
    /\ x + dx >= 0
    /\ x + dx + bs <= width

\* the displacements (dx, dy) of the search whose window lies within frame1
Displacements(y, x, bs, height, width) ==
    {mv \in (-search_range..search_range) \X (-search_range..search_range) :
        InFrame(y, x, mv[1], mv[2], bs, height, width)}

\* the search visits mv no later than other: dy in the outer loop, dx in the
\* inner one
ScannedBefore(mv, other) ==
    \/ mv[2] < other[2]
    \/ mv[2] = other[2] /\ mv[1] <= other[1]

\* best_mv of the block at (x, y): the first displacement scanned whose diff
\* is below every diff before it and not above any after it
BestMv(frame, pixels2, y, x, bs) ==
    LET height == Len(frame.pixels)
        width == Len(frame.pixels[1])
        found == Displacements(y, x, bs, height, width)
        diff == [mv \in found |->
                    BlockDiff(frame.pixels, pixels2, y, x, mv[1], mv[2], bs, bs,
                              frame.dtype)]
    IN IF found = {} THEN <<0, 0>>
       ELSE CHOOSE mv \in found :
                \A other \in found :
                    \/ diff[mv] < diff[other]
                    \/ diff[mv] = diff[other] /\ ScannedBefore(mv, other)

\* len(range(0, length - bs + 1, bs))
BlocksAlong(length, bs) == IF length < bs THEN 0 ELSE (length - bs) \div bs + 1

\* apply_motion_estimation(frame1, frame2, block_size): motion_vectors, one
\* best_mv per block of frame2, row by row
apply_motion_estimation(frame, pixels2, bs) ==
    LET across == BlocksAlong(Len(frame.pixels[1]), bs)
        down == BlocksAlong(Len(frame.pixels), bs)
    IN [k \in 1..(down * across) |->
            BestMv(frame, pixels2, ((k - 1) \div across) * bs,
                   ((k - 1) % across) * bs, bs)]

MotionInit ==
    /\ OthersIdle
    /\ quantizations = <<>>
    /\ frame1 \in PreviousFrames
    /\ frame2 \in Frames
    /\ motion_vectors = <<>>
    /\ ChunkIdle

\* process_frame_chunk estimates the motion from the previous frame to the
\* current one
EstimateMotion ==
    /\ frame1 # <<>>
    /\ motion_vectors = <<>>
    /\ motion_vectors' = apply_motion_estimation(frame1, frame2, block_size)
    /\ UNCHANGED <<frame1, frame2, quantizations, chunkVars, quality, orchVars,
                   codecVars, appVars>>

MotionNext == EstimateMotion

SpecMotion == MotionInit /\ [][MotionNext]_vars

\* the sum of absolute differences of the luma values, each |a - b| taken
\* over the integers, between block k of frame2 and frame1 displaced by mv
SAD(k, mv) ==
    LET across == BlocksAlong(FrameWidth, block_size)
    IN BlockDiff(frame1.pixels, frame2, ((k - 1) \div across) * block_size,
                 ((k - 1) % across) * block_size, mv[1], mv[2],
                 block_size, block_size, "integers")

\* the in-frame displacements of block k
InFrameDisplacements(k) ==
    LET across == BlocksAlong(FrameWidth, block_size)
    IN Displacements(((k - 1) \div across) * block_size,
                     ((k - 1) % across) * block_size,
                     block_size, FrameHeight, FrameWidth)

\* the motion of frame2 against frame1 has been estimated
Estimated == frame1 # <<>> /\ motion_vectors # <<>>

\* C15: for every complete 16x16 block of the current frame,
\* apply_motion_estimation records exactly one displacement (dx, dy) within
\* +-16 whose referenced block lies inside the previous frame and whose sum
\* of absolute differences, each |a - b| taken over the integers, is minimal
\* among all such in-frame displacements.
C15_MinimalSAD ==
    Estimated =>
        /\ Len(motion_vectors)
               = BlocksAlong(FrameHeight, block_size) * BlocksAlong(FrameWidth, block_size)
        /\ \A k \in 1..Len(motion_vectors) :
            /\ motion_vectors[k] \in InFrameDisplacements(k)
            /\ \A other \in InFrameDisplacements(k) :
                SAD(k, motion_vectors[k]) <= SAD(k, other)

----------------------------------------------------------------------------
(* Claims about the candidates' order *)

\* C16: within one call of compress_video, compress_pdf or compress_docx the
\* candidates run strictly one after another: a candidate's temp file is
\* closed and then promoted or deleted before the next candidate opens that
\* path, so at no time do two candidates hold the temp path open.
C16_CandidatesRunInSequence ==
    /\ Cardinality(temp_open) <= 1
    /\ (kind \in Kinds /\ pc = "write") =>
            /\ temp_open = {}
            /\ temp_file = NoFile

\* candidate i measured the smallest size of the call, below original_size,
\* and no candidate before it measured the same
EarliestSmallest(i) ==
    /\ Completed(i)
    /\ measured[i] < original_size
    /\ \A k \in Candidates : Completed(k) => measured[i] <= measured[k]
    /\ \A k \in 1..(i - 1) : Completed(k) => measured[i] < measured[k]

\* C17 as stated: in compress_video, compress_docx and compress_pdf, when two or more
\* candidates produce the same smallest measured size, strictly below
\* original_size, the reported algorithm and the file at output_path are those
\* of the earliest such candidate; a later candidate of equal size never
\* replaces it.
C17_TieKeepsEarliest ==
    /\ \A n \in 1..Len(output_writes) :
          output_writes[n].how = "promote" =>
              output_writes[n].size # output_writes[n].best
    /\ \A i, j \in Candidates :
          (/\ Returned
           /\ i < j
           /\ EarliestSmallest(i)
           /\ Completed(j)
           /\ measured[j] = measured[i]) =>
              /\ result.success
              /\ result.algorithm = algorithms[i]
              /\ output_file = [by |-> algorithms[i], size |-> measured[i]]

\* a call returned after the first and a later candidate measured the same
\* size, smaller than every other, and the first is the one reported
C17_Witness ==
    /\ Returned
    /\ result.success
    /\ \E j \in Candidates :
          /\ 1 < j
          /\ EarliestSmallest(1)
          /\ Completed(j)
          /\ measured[j] = measured[1]
          /\ result.algorithm = algorithms[1]
          /\ output_file.by = algorithms[1]

----------------------------------------------------------------------------
(* Claims about the codebooks and the LZ77 search *)

\* the modules that build a Huffman codebook
Builders == Kinds \cup {"text"}

\* the input's alphabet has n symbols
AlphabetOf(s, n) == Len(Distinct(s, <<>>)) = n

\* C18: for an input whose alphabet is a single symbol, repeated any number
\* of times >= 1, every Huffman codebook builder of the repository (text,
\* docx, video and pdf) assigns that symbol the code "0".
C18_SingleSymbolCodeIsZero ==
    (codec = "huffman" /\ AlphabetOf(data, 1)) =>
        \A module \in Builders :
            CodesOf(data, module) = << <<data[1], <<0>>>> >>

\* a is a prefix of b
IsPrefix(a, b) == Len(a) <= Len(b) /\ SubSeq(b, 1, Len(a)) = a

\* the codebook has one non-empty code per distinct symbol of s, none a
\* prefix of another
PrefixFree(codebook, s) ==
    /\ Len(codebook) = Len(Distinct(s, <<>>))
    /\ \A v \in {s[k] : k \in 1..Len(s)} :
          Cardinality({n \in 1..Len(codebook) : codebook[n][1] = v}) = 1
    /\ \A n \in 1..Len(codebook) : codebook[n][2] # <<>>
    /\ \A m, n \in 1..Len(codebook) :
          m # n => ~IsPrefix(codebook[m][2], codebook[n][2])

\* C19: for every input with at least two distinct symbols, the codebook
\* derived from the tree built by build_huffman_tree has one non-empty code
\* per distinct input symbol and is prefix-free: no symbol's code is a prefix
\* of another symbol's code.
C19_CodebookIsPrefixFree ==
    (codec = "huffman" /\ ~AlphabetOf(data, 0) /\ ~AlphabetOf(data, 1)) =>
        \A module \in Builders : PrefixFree(CodesOf(data, module), data)

\* an input of three distinct symbols was encoded, its codes of two lengths
C19_Witness ==
    /\ codec = "huffman"
    /\ AlphabetOf(data, 3)
    /\ \E m, n \in 1..3 :
          Len(CodesOf(data, impl)[m][2]) < Len(CodesOf(data, impl)[n][2])

\* max(0, pos - window_size)
WindowStart(pos, window) == IF pos - window > 0 THEN pos - window ELSE 0

\* the match tokens lz77_encode emits from pos on: where the search stood,
\* and the offset and length it chose
RECURSIVE MatchTokens(_, _, _, _)
MatchTokens(s, pos, window, lookahead) ==
    IF pos >= Len(s) THEN <<>>
    ELSE LET best_match == BestMatch(s, WindowStart(pos, window), pos,
                                     lookahead, <<0, 0>>)
         IN IF FoundMatch(best_match)
            THEN <<[pos |-> pos, offset |-> best_match[1], length |-> best_match[2]]>>
                 \o MatchTokens(s, Advance(pos, best_match[2]), window,
                                lookahead)
            ELSE MatchTokens(s, pos + 1, window, lookahead)

\* every match token uses the smallest offset among the window positions that
\* give its length
NearestOffsets(s, window, lookahead) ==
    LET tokens == MatchTokens(s, 0, window, lookahead)
    IN \A n \in 1..Len(tokens) :
          \A i \in WindowStart(tokens[n].pos, window)..(tokens[n].pos - 1) :
              MatchLength(s, i, tokens[n].pos, lookahead, 0) = tokens[n].length
                  => tokens[n].offset <= tokens[n].pos - i

\* C20: in lz77_encode, when several window positions give the same longest
\* match length at the current position, the emitted token uses the smallest
\* offset among them (the most recent, nearest occurrence).
C20_TieKeepsNearestOffset ==
    codec = "lz77" =>
        \A params \in LZ77Params :
            encoded = lz77_encode(data, params[1], params[2])
                => NearestOffsets(data, params[1], params[2])

\* the tokens of a stream lz77_encode returned, from byte index p on: a
\* literal is two zero bytes and the symbol, a match its offset on two bytes,
\* its length and the next symbol, absent when the input ends with the match
RECURSIVE Tokens(_, _)
Tokens(b, p) ==
    IF p > Len(b) THEN <<>>
    ELSE IF b[p] = 0 /\ b[p + 1] = 0
         THEN <<[literal |-> TRUE, offset |-> 0, length |-> 0, next |-> <<b[p + 2]>>]>>
              \o Tokens(b, p + 3)
         ELSE <<[literal |-> FALSE, offset |-> 256 * b[p] + b[p + 1],
                 length |-> b[p + 2],
                 next |-> IF p + 3 <= Len(b) THEN <<b[p + 3]>> ELSE <<>>]>>
              \o Tokens(b, p + 4)

\* how many input symbols a token stands for
Covers(token) == token.length + Len(token.next)

\* the input position at which the search stood when it emitted token n
RECURSIVE StartOf(_, _)
StartOf(tokens, n) ==
    IF n = 1 THEN 0 ELSE StartOf(tokens, n - 1) + Covers(tokens[n - 1])

\* the best match length the search finds at the position of token n
BestLengthAt(s, tokens, n, window, lookahead) ==
    BestMatch(s, WindowStart(StartOf(tokens, n), window), StartOf(tokens, n),
              lookahead, <<0, 0>>)[2]

\* every token is a literal, advancing by one symbol, when the best match
\* length at its position is at most threshold, and a match token of that
\* length, advancing by length + 1, when it is greater
TokensFollowThreshold(s, b, window, lookahead, threshold) ==
    LET tokens == Tokens(b, 1)
    IN \A n \in 1..Len(tokens) :
          LET best == BestLengthAt(s, tokens, n, window, lookahead)
          IN /\ StartOf(tokens, n) < Len(s)
             /\ best <= threshold =>
                   /\ tokens[n].literal
                   /\ tokens[n].next = <<s[StartOf(tokens, n) + 1]>>
             /\ best > threshold =>
                   /\ ~tokens[n].literal
                   /\ tokens[n].length = best
                   /\ Covers(tokens[n]) = best + 1
                      \/ StartOf(tokens, n) + best = Len(s)

\* C21 as stated: at every position lz77_encode emits a literal token
\* whenever the best match length is <= 3, and an (offset, length,
\* nextSymbol) token advancing by length + 1 only when it is greater than 3.
C21_LiteralUpToThree ==
    codec = "lz77" =>
        \A params \in LZ77Params :
            encoded = lz77_encode(data, params[1], params[2])
                => TokensFollowThreshold(data, encoded, params[1], params[2], 3)

\* C21 amended: at every position lz77_encode emits a literal token whenever
\* the best match length is <= 2, and an (offset, length, nextSymbol) token
\* advancing by length + 1 whenever it is greater than 2, a match of exactly
\* three symbols included.
C21_LiteralUpToTwo ==
    codec = "lz77" =>
        \A params \in LZ77Params :
            encoded = lz77_encode(data, params[1], params[2])
                => TokensFollowThreshold(data, encoded, params[1], params[2], 2)

\* an input was encoded into a literal followed by a match token of exactly
\* three symbols
C21_Witness ==
    /\ codec = "lz77"
    /\ \E params \in LZ77Params :
          /\ encoded = lz77_encode(data, params[1], params[2])
          /\ \E n \in 2..Len(Tokens(encoded, 1)) :
                /\ Tokens(encoded, 1)[n - 1].literal
                /\ ~Tokens(encoded, 1)[n].literal
                /\ Tokens(encoded, 1)[n].length = 3
                /\ BestLengthAt(data, Tokens(encoded, 1), n, params[1], params[2]) = 3

----------------------------------------------------------------------------
(* The frame loop of one candidate of compress_video *)

\* the most frames a video holds, and the largest chunk
MaxFrames == 4
MaxChunk == 3

\* frame number i as cap.read() returns it
InputFrame(i) == [src |-> i, by |-> "input", ref |-> NoRef]

\* what identifies a frame: the input frame it stands for and what made it
Ident(frame) == <<frame.src, frame.by>>

\* the candidates that read current_prev
UsesReference(name) == name \in {"Motion Compensation", "Hybrid Compression"}

\* the branches of process_frame_chunk's try block: 'Motion Compensation'
\* leaves the frame as it is while there is no previous frame, every other
\* candidate rebinds frame to its result
ProcessFrame(frame, name, current_prev) ==
    IF name = "Motion Compensation" /\ current_prev = NoFrame THEN frame
    ELSE [src |-> frame.src, by |-> name,
          ref |-> IF UsesReference(name) THEN Ident(current_prev) ELSE NoRef]

\* variant of the reference update that keeps the frame as it was read
KeepInputFrame(frame, emitted) == frame

\* "current_prev = frame.copy()" after the frame is appended, in the try
\* block and in the handler alike
NextPrev(frame, emitted) == emitted

\* process_frame_chunk(frames, algo, prev_frame): the for loop; a frame whose
\* processing raises is appended as it was read
RECURSIVE ProcessFrames(_, _, _, _, _)
ProcessFrames(frames, name, current_prev, raising, processed_frames) ==
    IF frames = <<>> THEN processed_frames
    ELSE LET frame == Head(frames)
             emitted == IF frame.src \in raising THEN frame
                        ELSE ProcessFrame(frame, name, current_prev)
         IN ProcessFrames(Tail(frames), name, NextPrev(frame, emitted), raising,
                          Append(processed_frames, emitted))

process_frame_chunk(frames, name, previous, raising) ==
    ProcessFrames(frames, name, previous, raising, <<>>)

\* "for _ in range(chunk_size): ret, frame = cap.read()": the frames read
\* from position pos, until the chunk is full or the video ends
RECURSIVE ReadFrames(_, _, _)
ReadFrames(pos, size, total) ==
    IF size = 0 \/ pos >= total THEN <<>>
    ELSE <<InputFrame(pos)>> \o ReadFrames(pos + 1, size - 1, total)

\* variant of the position of cap after a chunk: one frame further
CapSkipsOne(pos, frames) == pos + Len(frames) + 1

\* the position of cap after the reads of one chunk
CapAfter(pos, frames) == pos + Len(frames)

\* the six candidates of compress_video
VideoCandidates ==
    {VideoAlgorithms(lossy)[i] : lossy \in BOOLEAN, i \in 1..3}

FramesInit ==
    /\ OthersIdle
    /\ quantizations = <<>>
    /\ frame1 = <<>>
    /\ frame2 = <<>>
    /\ motion_vectors = <<>>
    /\ algo \in VideoCandidates
    /\ video_frames \in 0..MaxFrames
    /\ failing \in SUBSET (0..(video_frames - 1))
    /\ chunk_size \in 1..MaxChunk
    /\ cap_pos = 0
    /\ prev_frame = NoFrame
    /\ temp_frames = <<>>
    /\ pass = "running"

\* one iteration of "while True": read a chunk; leave the loop when it is
\* empty; otherwise process it, write its frames to temp_out in order and keep
\* the last processed frame.  A write or the progress report may raise after
\* some of the chunk's frames were written, which ends the candidate.
ProcessChunk ==
    /\ pass = "running"
    /\ LET frames == ReadFrames(cap_pos, chunk_size, video_frames)
           processed_chunk == process_frame_chunk(frames, algo, prev_frame, failing)
       IN /\ cap_pos' = CapAfter(cap_pos, frames)
          /\ IF frames = <<>>
             THEN /\ pass' = "done"
                  /\ UNCHANGED <<temp_frames, prev_frame>>
             ELSE \/ /\ temp_frames' = temp_frames \o processed_chunk
                     /\ prev_frame' = processed_chunk[Len(processed_chunk)]
                     /\ pass' = "running"
                  \/ \E n \in 0..Len(processed_chunk) :
                     /\ temp_frames' = temp_frames \o SubSeq(processed_chunk, 1, n)
                     /\ prev_frame' = prev_frame
                     /\ pass' = "raised"
    /\ UNCHANGED <<algo, video_frames, failing, chunk_size>>
    /\ UNCHANGED <<quantizations, frame1, frame2, motion_vectors, quality,
                   orchVars, codecVars, appVars>>

\* the next candidate of the list: cap is rewound, a new temp_out is opened
\* and prev_frame starts as None
NextPass ==
    /\ pass \in {"done", "raised"}
    /\ \E lossy \in BOOLEAN, i \in 1..2 :
          /\ algo = VideoAlgorithms(lossy)[i]
          /\ algo' = VideoAlgorithms(lossy)[i + 1]
    /\ cap_pos' = 0
    /\ prev_frame' = NoFrame
    /\ temp_frames' = <<>>
    /\ pass' = "running"
    /\ UNCHANGED <<video_frames, failing, chunk_size>>
    /\ UNCHANGED <<quantizations, frame1, frame2, motion_vectors, quality,
                   orchVars, codecVars, appVars>>

FramesNext == ProcessChunk \/ NextPass

SpecFrames == FramesInit /\ [][FramesNext]_vars

\* C22: for each candidate in compress_video, the frames written to the temp
\* output correspond one-to-one and in the same order to the frames read from
\* the input, across all chunks and for any chunk size: no frame is dropped,
\* duplicated or reordered, a frame whose processing raises is passed through.
C22_FramesKeepOrder ==
    /\ \A n \in 1..Len(temp_frames) :
          /\ temp_frames[n].src = n - 1
          /\ temp_frames[n].src \in failing => temp_frames[n] = InputFrame(n - 1)
    /\ Len(temp_frames) <= cap_pos
    /\ pass \in {"running", "done"} => Len(temp_frames) = cap_pos
    /\ pass = "done" => Len(temp_frames) = video_frames

\* a pass over several chunks, the last one short, ended with a frame that
\* raised passed through between processed ones
C22_Witness ==
    /\ pass = "done"
    /\ chunk_size > 1
    /\ video_frames > chunk_size
    /\ video_frames % chunk_size # 0
    /\ \E n \in 2..(Len(temp_frames) - 1) :
          /\ temp_frames[n].by = "input"
          /\ temp_frames[n - 1].by = algo
          /\ temp_frames[n + 1].by = algo

\* C23: in compress_video the previous-frame reference used for frame i+1 is
\* always the emitted output for frame i, inside a chunk and across a chunk
\* boundary, never the raw input frame i; the first frame of each candidate's
\* pass has no reference.
C23_ReferenceIsLastEmitted ==
    /\ pass # "idle" /\ temp_frames # <<>> => temp_frames[1].ref = NoRef
    /\ pass # "idle" /\ cap_pos = 0 => prev_frame = NoFrame
    /\ pass = "running" /\ temp_frames # <<>> =>
          prev_frame = temp_frames[Len(temp_frames)]
    /\ \A n \in 2..Len(temp_frames) :
          (UsesReference(algo) /\ temp_frames[n].by = algo) =>
              temp_frames[n].ref = Ident(temp_frames[n - 1])

\* a later candidate's pass in which a frame at a chunk boundary took the
\* processed frame before it as its reference
C23_Witness ==
    /\ algo = "Hybrid Compression"
    /\ pass = "done"
    /\ chunk_size = 2
    /\ Len(temp_frames) > 2
    /\ temp_frames[2].by = algo
    /\ temp_frames[3].by = algo
    /\ temp_frames[3].ref = <<1, algo>>

----------------------------------------------------------------------------
(* Claims about the quantization matrix *)

\* C24: for every quality in 1..100 each of the 64 entries of the scaled
\* quantization matrix used by apply_quantization is strictly positive, so
\* the division of the DCT coefficients by the matrix is always defined.
C24_MatrixIsPositive ==
    \A n \in 1..Len(quantizations) :
        \A k \in 1..64 :
            /\ quantizations[n].q_matrix[k][1] > 0
            /\ quantizations[n].q_matrix[k][2] > 0
            /\ quantizations[n].quantized[k] # NaN

----------------------------------------------------------------------------
(* Claims about the accumulator of the candidate loops *)

InLoop == pc \in {"loop", "write", "measure", "except"}

\* the step ends the current candidate's try block by an exception
CandidateRaises == pc \in {"loop", "write", "measure"} /\ pc' = "except"

\* the step compares a measured size that is not strictly smaller than the best
CandidateNotSmaller ==
    pc = "measure" /\ ~(temp_file.size < best_compressed_size)

\* C25 as stated: in the candidate loops a candidate that raises, or whose
\* measured size is not strictly smaller than the best so far, leaves the
\* best size, the best algorithm and the file at output_path unchanged; the
\* best size never increases from one step of the loop to the next, and the
\* best algorithm is unset exactly while the best size equals original_size.
C25_LosersLeaveAccumulator ==
    [][ /\ (CandidateRaises \/ CandidateNotSmaller \/ pc = "except") =>
              UNCHANGED <<best_compressed_size, best_algorithm, output_file>>
        /\ (InLoop /\ InLoop') => best_compressed_size' <= best_compressed_size
        /\ InLoop' => (best_algorithm' = None <=>
                          best_compressed_size' = original_size) ]_vars

----------------------------------------------------------------------------
(* Claims about the termination of the LZ77 search *)

\* the input symbols token n stands for, read off the input before it: the
\* symbols its match copies from offset positions back, then its next symbol
TokenMatchesInput(s, tokens, n) ==
    LET start == StartOf(tokens, n)
    IN /\ \A k \in 1..tokens[n].length :
             /\ start + k - tokens[n].offset >= 1
             /\ s[start + k] = s[start + k - tokens[n].offset]
       /\ tokens[n].next # <<>> =>
             tokens[n].next = <<s[start + tokens[n].length + 1]>>

\* the tokens of b stand for every position of s once and in order, one token
\* per iteration of the loop, each iteration starting inside the input and
\* advancing; match tokens have offset in 1..window and length in 3..lookahead
CoversInOrder(s, b, window, lookahead) ==
    LET tokens == Tokens(b, 1)
    IN /\ b # OverflowError
       /\ Len(tokens) <= Len(s)
       /\ \A n \in 1..Len(tokens) :
             /\ StartOf(tokens, n) < Len(s)
             /\ Covers(tokens[n]) >= 1
             /\ TokenMatchesInput(s, tokens, n)
             /\ tokens[n].literal => Covers(tokens[n]) = 1
             /\ ~tokens[n].literal =>
                   /\ tokens[n].offset \in 1..window
                   /\ tokens[n].length \in 3..lookahead
                   /\ tokens[n].offset <= 65535
                   /\ tokens[n].length <= 255
       /\ StartOf(tokens, Len(tokens) + 1) = Len(s)

\* C26: for every input, window size <= 65535 and lookahead size <= 255,
\* lz77_encode terminates; each iteration emits one token and advances by at
\* least one position, the tokens cover every input position exactly once in
\* order, and every match token has offset in 1..window_size and length in
\* 3..lookahead_size, so the two-byte offset and one-byte length never overflow.
C26_TokensCoverInput ==
    codec = "lz77" =>
        \A params \in LZ77Params :
            (params[1] <= 65535 /\ params[2] <= 255
             /\ encoded = lz77_encode(data, params[1], params[2]))
                => CoversInOrder(data, encoded, params[1], params[2])

\* an input was encoded with the short window and lookahead into a match token
\* of the largest length they allow, cut short of the match the default
\* parameters find, and followed by further tokens
C26_Witness ==
    /\ codec = "lz77"
    /\ encoded = lz77_encode(data, SmallWindow, SmallLookahead)
    /\ encoded # lz77_encode(data, window_size, lookahead_size)
    /\ \E n \in 1..(Len(Tokens(encoded, 1)) - 1) :
          /\ ~Tokens(encoded, 1)[n].literal
          /\ Tokens(encoded, 1)[n].length = SmallLookahead
          /\ Tokens(encoded, 1)[n].next # <<>>

----------------------------------------------------------------------------
(* Claims about the text entry points' output *)

\* the text holds two whitespace characters in a row
HasWhitespaceRun(text) ==
    \E k \in 1..(Len(text) - 1) : IsSpace(text[k]) /\ IsSpace(text[k + 1])

\* C27 as stated: for a fixed quality in 1..100 the text compress_text_lossy
\* returns contains no run of two or more whitespace characters, and
\* compress_text_lossy applied to it at the same quality returns it unchanged.
C27_LossyIsIdempotent ==
    (codec = "compress_text_lossy" /\ 1 <= quality /\ quality <= 100) =>
        /\ ~HasWhitespaceRun(encoded)
        /\ compress_text_lossy(encoded, quality)[1] = encoded

\* C28 as stated: after compress_text returns success = true, in either mode,
\* the size in bytes of the file it wrote at output_path equals the
\* compressed_size of the result.
C28_FileSizeIsReported ==
    (codec = "compress_text" /\ ReportsSuccess) =>
        /\ output_file # NoFile
        /\ output_file.size = result.compressed_size

----------------------------------------------------------------------------
(* The request handlers of app.py, two requests at a time *)

\* the Flask development server handles each request in a thread of its own
Requests == {1, 2}

\* file.filename of the uploads
Names == {"report", "notes"}

FileTypes == {"image", "text", "pdf", "video", "docx"}
Endpoints == {"/compress/metadata", "/compress/file"}

\* os.path.join(UPLOAD_FOLDER, secure_filename(file.filename))
InputPath(name) == <<"temp", name>>

\* os.path.join(UPLOAD_FOLDER, f"{filename}_compressed{ext}")
OutputPath(name) == <<"temp", name, "_compressed">>

\* f"{output_path}.temp"
TempOutput(output_path) == output_path \o <<".temp">>

Paths ==
    UNION {{InputPath(n), OutputPath(n), TempOutput(OutputPath(n))} : n \in Names}

\* no file at the path; a file derived from the upload of request from and
\* put at its path by request by
NoPath == [from |-> 0, by |-> 0]
File(from, by) == [from |-> from, by |-> by]

\* the is_lossy the handlers hand to the entry point: compress_video and
\* compress_docx are called without it and run with their default, True
PassedMode(file_type, isLossy) ==
    IF file_type \in {"video", "docx"} THEN TRUE ELSE isLossy

\* the candidates the entry point of a media type runs in a mode
CandidateSet(file_type, lossy) ==
    CASE file_type = "video" -> VideoAlgorithms(lossy)
      [] file_type = "docx"  -> DocxAlgorithms(lossy)
      [] file_type = "pdf"   -> PdfAlgorithms(lossy)
      [] file_type = "image" -> <<FirstFormat(lossy)>>
      [] file_type = "text"  ->
            <<IF lossy THEN "Lossy Text Compression"
              ELSE "Lossless Text Compression (Huffman)">>

NoResponse == [status |-> "none", from |-> 0]
ErrorResponse == [status |-> "error", from |-> 0]
Response(from) == [status |-> "ok", from |-> from]

NewRequest(name, file_type, isLossy, endpoint) ==
    [name |-> name, file_type |-> file_type, isLossy |-> isLossy,
     endpoint |-> endpoint, pc |-> "new", ran |-> <<>>, idx |-> 0,
     upload |-> 0, result_from |-> 0, promoted |-> FALSE,
     response |-> NoResponse, interfered |-> {}]

AppInit ==
    /\ OrchIdle
    /\ CodecIdle
    /\ quality = 50
    /\ MediaIdle
    /\ \E n \in Names, t1, t2 \in FileTypes, l1, l2 \in BOOLEAN,
          e1, e2 \in Endpoints :
          requests = <<NewRequest("report", t1, l1, e1), NewRequest(n, t2, l2, e2)>>
    /\ fs = [p \in Paths |-> NoPath]

InFlight(r) == requests[r].pc \notin {"new", "done"}

\* what request r does to the file at path, when the file was put there by
\* another request that is still being handled
Touch(r, path, what) ==
    IF fs[path] # NoPath /\ fs[path].by # r /\ InFlight(fs[path].by)
    THEN {what} ELSE {}

AppUnchanged ==
    UNCHANGED <<orchVars, codecVars, quality, quantizations, frame1, frame2,
                motion_vectors, chunkVars>>

\* file.save(input_path)
SaveUpload(r) ==
    LET req == requests[r] IN
    /\ req.pc = "new"
    /\ fs' = [fs EXCEPT ![InputPath(req.name)] = File(r, r)]
    /\ requests' = [requests EXCEPT ![r] =
           [req EXCEPT !.pc = "saved",
                       !.interfered = @ \cup Touch(r, InputPath(req.name),
                                                  "overwrites input")]]
    /\ AppUnchanged

\* the call of the entry point of file_type, up to its reading of input_path;
\* a missing input makes it return success = false
StartCompress(r) ==
    LET req == requests[r]
        input == fs[InputPath(req.name)]
    IN
    /\ req.pc = "saved"
    /\ requests' = [requests EXCEPT ![r] =
           IF input = NoPath
           THEN [req EXCEPT !.pc = "done", !.response = ErrorResponse]
           ELSE [req EXCEPT
                   !.pc = IF req.file_type \in {"image", "text"} THEN "direct"
                          ELSE "candidate",
                   !.idx = 1,
                   !.upload = input.from,
                   !.ran = CandidateSet(req.file_type,
                                        PassedMode(req.file_type, req.isLossy)),
                   !.interfered = @ \cup Touch(r, InputPath(req.name),
                                              "reads input")]]
    /\ fs' = fs
    /\ AppUnchanged

\* compress_image and compress_text write output_path themselves, then say
\* whether the result is a success
WriteDirect(r) ==
    LET req == requests[r] IN
    /\ req.pc = "direct"
    /\ fs' = [fs EXCEPT ![OutputPath(req.name)] = File(req.upload, r)]
    /\ \E success \in BOOLEAN :
        requests' = [requests EXCEPT ![r] =
           [req EXCEPT !.pc = IF success THEN "respond" ELSE "done",
                       !.response = IF success THEN @ ELSE ErrorResponse,
                       !.result_from = req.upload,
                       !.promoted = TRUE,
                       !.interfered = @ \cup Touch(r, OutputPath(req.name),
                                                  "overwrites output")]]
    /\ AppUnchanged

\* one candidate of compress_video, compress_docx or compress_pdf writes its
\* temp file; compress_docx opens input_path again for every candidate, and
\* when that raises in the first iteration the handler's use of temp_output
\* ends the call
WriteCandidate(r) ==
    LET req == requests[r]
        input == fs[InputPath(req.name)]
        temp_output == TempOutput(OutputPath(req.name))
    IN
    /\ req.pc = "candidate"
    /\ IF req.file_type = "docx" /\ input = NoPath
       THEN /\ fs' = IF req.idx = 1 THEN fs ELSE [fs EXCEPT ![temp_output] = NoPath]
            /\ requests' = [requests EXCEPT ![r] =
                  IF req.idx = 1
                  THEN [req EXCEPT !.pc = "done", !.response = ErrorResponse]
                  ELSE [req EXCEPT
                          !.pc = IF req.idx = 3 THEN "finish" ELSE "candidate",
                          !.idx = @ + 1,
                          !.interfered = @ \cup Touch(r, temp_output,
                                                     "deletes temp")]]
       ELSE /\ fs' = [fs EXCEPT ![temp_output] =
                        File(IF req.file_type = "docx" THEN input.from
                             ELSE req.upload, r)]
            /\ requests' = [requests EXCEPT ![r] =
                  [req EXCEPT
                     !.pc = "measure",
                     !.interfered = @ \cup Touch(r, temp_output, "overwrites temp")
                        \cup (IF req.file_type = "docx"
                              THEN Touch(r, InputPath(req.name), "reads input")
                              ELSE {})]]
    /\ AppUnchanged

\* getsize(temp_output) and the comparison: the file found at the temp path
\* is moved to output_path or removed; when it is gone getsize raises and the
\* handler goes on to the next candidate
MeasureTemp(r) ==
    LET req == requests[r]
        temp_output == TempOutput(OutputPath(req.name))
        next == [req EXCEPT !.pc = IF req.idx = 3 THEN "finish" ELSE "candidate",
                            !.idx = @ + 1]
    IN
    /\ req.pc = "measure"
    /\ IF fs[temp_output] = NoPath
       THEN /\ fs' = fs
            /\ requests' = [requests EXCEPT ![r] = next]
       ELSE \E improves \in BOOLEAN :
            IF improves
            THEN /\ fs' = [fs EXCEPT ![temp_output] = NoPath,
                                     ![OutputPath(req.name)] =
                                         File(fs[temp_output].from, r)]
                 /\ requests' = [requests EXCEPT ![r] =
                       [next EXCEPT
                          !.result_from = fs[temp_output].from,
                          !.promoted = TRUE,
                          !.interfered = @
                             \cup Touch(r, temp_output, "moves temp")
                             \cup Touch(r, OutputPath(req.name),
                                        "overwrites output")]]
            ELSE /\ fs' = [fs EXCEPT ![temp_output] = NoPath]
                 /\ requests' = [requests EXCEPT ![r] =
                       [next EXCEPT
                          !.interfered = @ \cup Touch(r, temp_output,
                                                     "deletes temp")]]
    /\ AppUnchanged

\* after the loop: success when a candidate was promoted; compress_pdf
\* otherwise writes one more attempt straight to output_path
FinishCompress(r) ==
    LET req == requests[r] IN
    /\ req.pc = "finish"
    /\ IF req.promoted
       THEN /\ fs' = fs
            /\ requests' = [requests EXCEPT ![r] = [req EXCEPT !.pc = "respond"]]
       ELSE IF req.file_type = "pdf"
       THEN /\ fs' = [fs EXCEPT ![OutputPath(req.name)] = File(req.upload, r)]
            /\ \E success \in BOOLEAN :
                requests' = [requests EXCEPT ![r] =
                   [req EXCEPT
                      !.pc = IF success THEN "respond" ELSE "done",
                      !.response = IF success THEN @ ELSE ErrorResponse,
                      !.result_from = req.upload,
                      !.interfered = @ \cup Touch(r, OutputPath(req.name),
                                                 "overwrites output")]]
       ELSE /\ fs' = fs
            /\ requests' = [requests EXCEPT ![r] =
                  [req EXCEPT !.pc = "done", !.response = ErrorResponse]]
    /\ AppUnchanged

\* the end of the handler after a success: /compress/metadata returns the
\* result; /compress/file reads output_path, removes input_path and
\* output_path (the second only if the first removal did not raise) and
\* returns what it read
Respond(r) ==
    LET req == requests[r]
        input_path == InputPath(req.name)
        output_path == OutputPath(req.name)
    IN
    /\ req.pc = "respond"
    /\ IF req.endpoint = "/compress/metadata"
       THEN /\ fs' = fs
            /\ requests' = [requests EXCEPT ![r] =
                  [req EXCEPT !.pc = "done", !.response = Response(req.result_from)]]
       ELSE IF fs[output_path] = NoPath
       THEN /\ fs' = fs
            /\ requests' = [requests EXCEPT ![r] =
                  [req EXCEPT !.pc = "done", !.response = ErrorResponse]]
       ELSE /\ fs' = IF fs[input_path] = NoPath THEN fs
                     ELSE [fs EXCEPT ![input_path] = NoPath,
                                     ![output_path] = NoPath]
            /\ requests' = [requests EXCEPT ![r] =
                  [req EXCEPT
                     !.pc = "done",
                     !.response = Response(fs[output_path].from),
                     !.interfered = @
                        \cup Touch(r, output_path, "reads output")
                        \cup Touch(r, input_path, "deletes input")]]
    /\ AppUnchanged

AppNext ==
    \E r \in Requests :
        \/ SaveUpload(r)
        \/ StartCompress(r)
        \/ WriteDirect(r)
        \/ WriteCandidate(r)
        \/ MeasureTemp(r)
        \/ FinishCompress(r)
        \/ Respond(r)

SpecApp == AppInit /\ [][AppNext]_vars

\* C29 as stated: the mode of the request selects the candidate set for every
\* media type: with isLossy = false the lossless candidates of text, image,
\* pdf, video and docx run, with isLossy = true the lossy ones.
C29_ModeSelectsCandidates ==
    \A r \in DOMAIN requests :
        requests[r].ran # <<>> =>
            requests[r].ran = CandidateSet(requests[r].file_type, requests[r].isLossy)

\* C30 as stated: two requests handled concurrently do not interfere, even
\* with uploads of the same name: what a request returns is computed from its
\* own upload only, and no request reads, overwrites or deletes the input
\* file, the temp file or the output file of the other.
C30_RequestsDoNotInterfere ==
    \A r \in DOMAIN requests :
        /\ requests[r].interfered = {}
        /\ requests[r].response.status = "ok" => requests[r].response.from = r

====
